---- MODULE Spec2Model ----
(***************************************************************************)
(* kv: a command-line key-value store kept in one JSON file (src/main.rs). *)
(*                                                                         *)
(* One invocation of the program is one action: it loads the file, works   *)
(* on the in-memory map, and (for set and delete) rewrites the file.       *)
(*                                                                         *)
(* A string is a sequence of characters (one-character strings; a literal  *)
(* piece of a format string is kept as one element).  The file is either   *)
(* absent or holds a text; an object text is the sequence of its members   *)
(* as written, escapes included, so that saving and loading are two        *)
(* different conversions.                                                  *)
(*                                                                         *)
(* Spec runs invocations one after the other.  SpecConc runs two           *)
(* invocations of set or delete at the same time, the read of the file and *)
(* the write of the file being separate steps of each.                     *)
(***************************************************************************)
EXTENDS Naturals, Sequences, FiniteSets

VARIABLES file, before, last, proc, lastWriter

vars == <<file, before, last, proc, lastWriter>>

\* The state of invocations that run at the same time (SpecConc).
conc == <<proc, lastWriter>>

\* ------------------------------------------------------------------ bounds

NumKeys == 2
NumVals == 2
MaxMembers == 1

\* ------------------------------------------------------------- characters

NL == "\n"
QT == "\""
BS == "\\"

KeyNames == << <<"a">>, <<"b">>, <<"a", QT>>, <<"c">> >>
ValNames == << <<"1">>, <<"2", NL, "b">>, <<"2">>, <<BS, "n">> >>

Keys == {KeyNames[i] : i \in 1..NumKeys}
Vals == {ValNames[i] : i \in 1..NumVals}

\* ------------------------------------------------------------ JSON values

\* serde_json::Value, the two shapes a member of the store can have here:
\* a string, or something that is not a string (the number 42).
StringValue(s) == [type |-> "String", s |-> s]
NumberValue == [type |-> "Number", s |-> <<"4", "2">>]

\* Map<String, Value>: a function from the keys present to their values.
EmptyMap == <<>>
contains_key(m, k) == k \in DOMAIN m
insert_alone(m, k, v) == [x \in {k} |-> v]
insert(m, k, v) == [x \in (DOMAIN m) \cup {k} |-> IF x = k THEN v ELSE m[x]]
remove_nothing(m, k) == m
remove(m, k) == [x \in (DOMAIN m) \ {k} |-> m[x]]
is_empty(m) == DOMAIN m = {}

\* The order of strings: byte by byte, a proper prefix first.
Alphabet == <<NL, QT, "1", "2", "4", BS, "a", "b", "c", "n">>
Rank(c) == CHOOSE i \in 1..Len(Alphabet) : Alphabet[i] = c

RECURSIVE Less(_, _)
Less(s, t) ==
    IF t = <<>> THEN FALSE
    ELSE IF s = <<>> THEN TRUE
    ELSE IF Head(s) = Head(t) THEN Less(Tail(s), Tail(t))
    ELSE Rank(Head(s)) < Rank(Head(t))

\* The orders in which a set of keys can be listed.
Orders(D) ==
    {o \in [1..Cardinality(D) -> D] :
        \A i, j \in 1..Cardinality(D) : o[i] = o[j] => i = j}

\* into_iter: the keys in the map's iteration order.  serde_json's Map is a
\* BTreeMap unless it is built with preserve_order: keys ascending.
IterOrder(m) ==
    CHOOSE o \in Orders(DOMAIN m) : \A i, j \in 1..Len(o) : i < j => Less(o[i], o[j])

\* ------------------------------------------------------------ results

\* Result<String, Error>: Ok(out), or Err of an io::Error with its kind and
\* its message.
Ok(s) == [ok |-> TRUE, kind |-> "Ok", out |-> s]
Err(kind, msg) == [ok |-> FALSE, kind |-> kind, out |-> msg]

\* ------------------------------------------------------------ file texts

Absent == [form |-> "absent", members |-> <<>>]
\* text that is not JSON at all, e.g.  {"a":
InvalidText == [form |-> "invalid", members |-> <<>>]
\* valid JSON whose top-level value is not an object, e.g.  42
ScalarText == [form |-> "scalar", members |-> <<>>]
ObjectText(ms) == [form |-> "object", members |-> ms]

\* The body of a JSON string literal for s, as serde_json writes it.
\* string literals written without escapes
Escape_raw(s) == s

RECURSIVE Escape(_)
Escape(s) ==
    IF s = <<>> THEN <<>>
    ELSE (CASE Head(s) = NL -> <<BS, "n">>
            [] Head(s) = QT -> <<BS, QT>>
            [] Head(s) = BS -> <<BS, BS>>
            [] OTHER -> <<Head(s)>>) \o Escape(Tail(s))

\* The string a JSON string literal's body stands for; not ok when the body
\* is no legal literal (a raw quote or control character, a bad escape).
RECURSIVE Unescape(_)
Unescape(b) ==
    IF b = <<>> THEN [ok |-> TRUE, s |-> <<>>]
    ELSE IF Head(b) = BS
    THEN IF Len(b) >= 2 /\ b[2] \in {BS, QT, "n"}
         THEN LET r == Unescape(SubSeq(b, 3, Len(b)))
                  c == IF b[2] = "n" THEN NL ELSE b[2]
              IN [ok |-> r.ok, s |-> <<c>> \o r.s]
         ELSE [ok |-> FALSE, s |-> <<>>]
    ELSE IF Head(b) \in {QT, NL}
    THEN [ok |-> FALSE, s |-> <<>>]
    ELSE LET r == Unescape(Tail(b))
         IN [ok |-> r.ok, s |-> <<Head(b)>> \o r.s]

\* A member as written:  "key": "value"  or  "key": 42
StringLit(s) == [lit |-> "string", body |-> Escape(s)]
NumberLit == [lit |-> "number", body |-> <<"4", "2">>]
Member(k, vt) == [key |-> Escape(k), val |-> vt]

ValueText(v) == IF v.type = "String" THEN StringLit(v.s) ELSE NumberLit

\* format!("{}", json) of an object: its members in iteration order.
Serialize(m) ==
    LET order == IterOrder(m) IN
    ObjectText([i \in 1..Len(order) |-> Member(order[i], ValueText(m[order[i]]))])

MemberOk(mt) ==
    /\ Unescape(mt.key).ok
    /\ mt.val.lit = "string" => Unescape(mt.val.body).ok

MemberValue(mt) ==
    IF mt.val.lit = "string" THEN StringValue(Unescape(mt.val.body).s)
    ELSE NumberValue

\* The map an object text parses to: members are inserted left to right, a
\* repeated key keeps its last value.
RECURSIVE ParseMembers(_, _)
ParseMembers(ms, acc) ==
    IF ms = <<>> THEN acc
    ELSE ParseMembers(Tail(ms),
                      insert(acc, Unescape(Head(ms).key).s, MemberValue(Head(ms))))

\* ------------------------------------------------------------ messages

OsNotFoundMsg == <<"No such file or directory (os error 2)">>
SyntaxMsg == <<"expected value at line 1 column 1">>
NotObjectMsg == <<"Data in file was not an object.">>
NotStringMsg == <<"invalid type: integer 42, expected a string">>
KeyNotFoundMsg_no_key(key) == <<"Key not found.">>
KeyNotFoundMsg(key) == <<"Key ", QT>> \o key \o <<QT, " not found.">>
AlreadyPresentMsg(key) ==
    <<"Key ", QT>> \o key \o <<QT, " already present. (Use --force to overwrite.)">>
SetMsg(key, value) ==
    <<"Key ", QT>> \o key \o <<QT, " set to value ", QT>> \o value \o <<QT, ".">>
DeletedMsg(key) == <<"Deleted key ", QT>> \o key \o <<QT, ".">>
NoKeysMsg == <<"No keys found.">>

\* items.join("\n")
RECURSIVE join(_)
join(items) ==
    IF items = <<>> THEN <<>>
    ELSE IF Len(items) = 1 THEN items[1]
    ELSE items[1] \o <<NL>> \o join(Tail(items))

\* ------------------------------------------------------------ load

\* load_json: Ok(map), or the error of the read, of the parse, or of the
\* top-level value not being an object.
LoadOk(m) == [ok |-> TRUE, kind |-> "Ok", out |-> <<>>, map |-> m]
LoadErr(kind, msg) == [ok |-> FALSE, kind |-> kind, out |-> msg, map |-> EmptyMap]

load_json_absent_is_empty(f) ==
    IF f.form = "absent" THEN LoadOk(EmptyMap)
    ELSE IF f.form = "invalid" \/ \E i \in 1..Len(f.members) : ~MemberOk(f.members[i])
    THEN LoadErr("InvalidData", SyntaxMsg)
    ELSE IF f.form = "object" THEN LoadOk(ParseMembers(f.members, EmptyMap))
    ELSE LoadErr("InvalidData", NotObjectMsg)

\* load_json that takes any valid JSON for a store
load_json_any_value(f) ==
    IF f.form = "absent" THEN LoadErr("NotFound", OsNotFoundMsg)
    ELSE IF f.form = "invalid" \/ \E i \in 1..Len(f.members) : ~MemberOk(f.members[i])
    THEN LoadErr("InvalidData", SyntaxMsg)
    ELSE LoadOk(ParseMembers(f.members, EmptyMap))

\* load_json that checks the values as it loads
load_json_eager(f) ==
    IF f.form = "absent" THEN LoadErr("NotFound", OsNotFoundMsg)
    ELSE IF f.form = "invalid" \/ \E i \in 1..Len(f.members) : ~MemberOk(f.members[i])
    THEN LoadErr("InvalidData", SyntaxMsg)
    ELSE IF f.form = "object" /\ \E i \in 1..Len(f.members) : f.members[i].val.lit # "string"
    THEN LoadErr("InvalidData", NotStringMsg)
    ELSE IF f.form = "object" THEN LoadOk(ParseMembers(f.members, EmptyMap))
    ELSE LoadErr("InvalidData", NotObjectMsg)

load_json(f) ==
    IF f.form = "absent" THEN LoadErr("NotFound", OsNotFoundMsg)
    ELSE IF f.form = "invalid" \/ \E i \in 1..Len(f.members) : ~MemberOk(f.members[i])
    THEN LoadErr("InvalidData", SyntaxMsg)
    ELSE IF f.form = "object" THEN LoadOk(ParseMembers(f.members, EmptyMap))
    ELSE LoadErr("InvalidData", NotObjectMsg)

\* load_json().unwrap_or_default()
load_or_default(f) == load_json(f).map

\* from_value::<String>(v)
from_value_String_lenient(v) == Ok(v.s)

from_value_String(v) ==
    IF v.type = "String" THEN Ok(v.s) ELSE Err("InvalidData", NotStringMsg)

\* ------------------------------------------------------------ operations

\* Each operation gives its result and, when it reaches save_json, the map
\* it saves.
Outcome(res, saved, map) == [res |-> res, saved |-> saved, map |-> map]

get(f, key) ==
    LET l == load_json(f) IN
    IF ~l.ok THEN Err(l.kind, l.out)
    ELSE IF contains_key(l.map, key) THEN from_value_String(l.map[key])
    ELSE Err("NotFound", KeyNotFoundMsg(key))

\* set that forgets to overwrite a key that is present
set_no_overwrite(f, key, value, force) ==
    LET json == load_or_default(f) IN
    IF contains_key(json, key) /\ ~force
    THEN Outcome(Err("AlreadyExists", AlreadyPresentMsg(key)), FALSE, json)
    ELSE IF contains_key(json, key)
    THEN Outcome(Ok(SetMsg(key, value)), TRUE, json)
    ELSE Outcome(Ok(SetMsg(key, value)), TRUE, insert(json, key, StringValue(value)))

\* set that overwrites whether or not force is given
set_always(f, key, value, force) ==
    LET json == load_or_default(f) IN
    Outcome(Ok(SetMsg(key, value)), TRUE, insert(json, key, StringValue(value)))

\* set that propagates a load failure, as get and delete do
set_propagate(f, key, value, force) ==
    LET l == load_json(f) IN
    IF ~l.ok THEN Outcome(Err(l.kind, l.out), FALSE, EmptyMap)
    ELSE IF contains_key(l.map, key) /\ ~force
    THEN Outcome(Err("AlreadyExists", AlreadyPresentMsg(key)), FALSE, l.map)
    ELSE Outcome(Ok(SetMsg(key, value)), TRUE, insert(l.map, key, StringValue(value)))

set(f, key, value, force) ==
    LET json == load_or_default(f) IN
    IF contains_key(json, key) /\ ~force
    THEN Outcome(Err("AlreadyExists", AlreadyPresentMsg(key)), FALSE, json)
    ELSE Outcome(Ok(SetMsg(key, value)), TRUE, insert(json, key, StringValue(value)))

\* delete that saves before it looks for the key
delete_saves_first(f, key) ==
    LET l == load_json(f) IN
    IF ~l.ok THEN Outcome(Err(l.kind, l.out), FALSE, EmptyMap)
    ELSE IF ~contains_key(l.map, key)
    THEN Outcome(Err("NotFound", KeyNotFoundMsg(key)), TRUE, l.map)
    ELSE Outcome(Ok(DeletedMsg(key)), TRUE, remove(l.map, key))

delete(f, key) ==
    LET l == load_json(f) IN
    IF ~l.ok THEN Outcome(Err(l.kind, l.out), FALSE, EmptyMap)
    ELSE IF ~contains_key(l.map, key)
    THEN Outcome(Err("NotFound", KeyNotFoundMsg(key)), FALSE, l.map)
    ELSE Outcome(Ok(DeletedMsg(key)), TRUE, remove(l.map, key))

\* a listing that leaves out the values that are not strings
ItemsOf_skipping(m, sep) ==
    LET order == IterOrder(m)
        strings == SelectSeq(order, LAMBDA k : m[k].type = "String")
    IN Ok(join([i \in 1..Len(strings) |-> strings[i] \o sep \o m[strings[i]].s]))

\* The lines of a listing, in iteration order; the first value that is not a
\* string ends the loop with its error.
ItemsOf(m, sep) ==
    LET order == IterOrder(m) IN
    IF \E i \in 1..Len(order) : m[order[i]].type # "String"
    THEN Err("InvalidData", NotStringMsg)
    ELSE Ok(join([i \in 1..Len(order) |-> order[i] \o sep \o m[order[i]].s]))

\* list that propagates a load failure
list_propagate(f) ==
    LET l == load_json(f) IN
    IF ~l.ok THEN Err(l.kind, l.out)
    ELSE IF is_empty(l.map) THEN Ok(NoKeysMsg)
    ELSE ItemsOf(l.map, <<" -> ">>)

\* list that writes its lines the way complete-keys does
list_colon(f) ==
    LET json == load_or_default(f) IN
    IF is_empty(json) THEN Ok(NoKeysMsg)
    ELSE ItemsOf(json, <<":">>)

list(f) ==
    LET json == load_or_default(f) IN
    IF is_empty(json) THEN Ok(NoKeysMsg)
    ELSE ItemsOf(json, <<" -> ">>)

\* complete-keys that swallows a load failure, as list does
complete_keys_default(f) == ItemsOf(load_or_default(f), <<":">>)

complete_keys(f) ==
    LET l == load_json(f) IN
    IF ~l.ok THEN Err(l.kind, l.out)
    ELSE ItemsOf(l.map, <<":">>)

\* ------------------------------------------------------------ completion

\* Option<&str>: the description of a subcommand, when it has one.
Some(text) == [some |-> TRUE, text |-> text]
None == [some |-> FALSE, text |-> <<>>]
SubCommand(name, about) == [name |-> name, about |-> about]

\* app.p.subcommands: the subcommands main registers, in that order.
App ==
    << SubCommand(<<"delete">>, Some(<<"Deletes key:value pairs.">>)),
       SubCommand(<<"get">>, Some(<<"Gets the value for a given key.">>)),
       SubCommand(<<"list">>, Some(<<"Lists all key:value pairs.">>)),
       SubCommand(<<"set">>, Some(<<"Sets a value for a key.">>)),
       SubCommand(<<"complete", "-", "commands">>, None),
       SubCommand(<<"complete", "-", "keys">>, None) >>

starts_with(s, prefix) ==
    Len(s) >= Len(prefix) /\ SubSeq(s, 1, Len(prefix)) = prefix

\* complete_commands with the test on the name turned around
complete_commands_inverted(app) ==
    LET keep(sc) == starts_with(sc.name, <<"complete">>) /\ sc.about.some
        kept == SelectSeq(app, keep)
    IN Ok(join([i \in 1..Len(kept) |-> kept[i].name \o <<":">> \o kept[i].about.text]))

complete_commands(app) ==
    LET keep(sc) == ~starts_with(sc.name, <<"complete">>) /\ sc.about.some
        kept == SelectSeq(app, keep)
    IN Ok(join([i \in 1..Len(kept) |-> kept[i].name \o <<":">> \o kept[i].about.text]))

\* ------------------------------------------------------------ state machine

Invocation(op, key, value, force, res, saved) ==
    [op |-> op, key |-> key, value |-> value, force |-> force,
     res |-> res, saved |-> saved]

\* The files the program can find: none, text that is not JSON, JSON that is
\* not an object, and objects written by the program or by hand (members in
\* any order, repeated keys, values that are not strings).
MemberTexts ==
    {Member(k, vt) : k \in Keys, vt \in {StringLit(v) : v \in Vals} \cup {NumberLit}}

InitFiles ==
    {Absent, InvalidText, ScalarText}
        \cup {ObjectText(ms) : ms \in UNION {[1..n -> MemberTexts] : n \in 0..MaxMembers}}

\* An invocation that has not read the file yet.
NotStarted ==
    [pc |-> "start", op |-> "none", key |-> <<>>, value |-> <<>>, force |-> FALSE,
     seen |-> Absent, loadedAt |-> 0, res |-> Ok(<<>>), saved |-> FALSE]

Procs == {1, 2}

Init ==
    /\ file \in InitFiles
    /\ before = file
    /\ last = Invocation("none", <<>>, <<>>, FALSE, Ok(<<>>), FALSE)
    /\ proc = [p \in Procs |-> NotStarted]
    /\ lastWriter = 0

\* save_json(to_value(json)): one write of the whole serialized map.
Save(o) ==
    IF o.saved
    THEN file' = Serialize(o.map)
    ELSE file' = file

\* get that saves the map it took the item out of
Get_saves ==
    \E key \in Keys :
        /\ last' = Invocation("get", key, <<>>, FALSE, get(file, key), get(file, key).ok)
        /\ file' = IF get(file, key).ok
                   THEN Serialize(remove(load_json(file).map, key))
                   ELSE file
        /\ before' = file
        /\ UNCHANGED conc

Get ==
    \E key \in Keys :
        /\ last' = Invocation("get", key, <<>>, FALSE, get(file, key), FALSE)
        /\ file' = file
        /\ before' = file
        /\ UNCHANGED conc

Set ==
    \E key \in Keys, value \in Vals, force \in BOOLEAN :
        LET o == set(file, key, value, force) IN
        /\ last' = Invocation("set", key, value, force, o.res, o.saved)
        /\ Save(o)
        /\ before' = file
        /\ UNCHANGED conc

Delete ==
    \E key \in Keys :
        LET o == delete(file, key) IN
        /\ last' = Invocation("delete", key, <<>>, FALSE, o.res, o.saved)
        /\ Save(o)
        /\ before' = file
        /\ UNCHANGED conc

List ==
    /\ last' = Invocation("list", <<>>, <<>>, FALSE, list(file), FALSE)
    /\ file' = file
    /\ before' = file
    /\ UNCHANGED conc

CompleteKeys ==
    /\ last' = Invocation("complete-keys", <<>>, <<>>, FALSE, complete_keys(file), FALSE)
    /\ file' = file
    /\ before' = file
    /\ UNCHANGED conc

CompleteCommands ==
    /\ last' = Invocation("complete-commands", <<>>, <<>>, FALSE,
                          complete_commands(App), FALSE)
    /\ file' = file
    /\ before' = file
    /\ UNCHANGED conc

Next == Get \/ Set \/ Delete \/ List \/ CompleteKeys \/ CompleteCommands

Spec == Init /\ [][Next]_vars

\* The file is as the format has it: absent, or a JSON object all of whose
\* values are strings.
IsStoreFile(f) ==
    \/ f.form = "absent"
    \/ /\ f.form = "object"
       /\ \A i \in 1..Len(f.members) :
            MemberOk(f.members[i]) /\ f.members[i].val.lit = "string"

\* The same invocations, started on a file that is as the format has it.
InitStore == Init /\ IsStoreFile(file)

SpecStore == InitStore /\ [][Next]_vars

\* ------------------------------------------------------------ two at a time

\* Two invocations of set or delete share the file with no lock.  Each reads
\* the file in one step (read_to_string) and, unless it fails first, writes
\* it in a later step (write); steps of the two interleave freely.

\* The stores the two start from: no file, or a store of string values as
\* the program writes it.
ConcFiles ==
    {Absent} \cup
    {Serialize(m) :
        m \in UNION {[D -> {StringValue(v) : v \in Vals}] :
                        D \in {K \in SUBSET Keys : Cardinality(K) <= MaxMembers}}}

ConcInit ==
    /\ file \in ConcFiles
    /\ before = file
    /\ last = Invocation("none", <<>>, <<>>, FALSE, Ok(<<>>), FALSE)
    /\ proc = [p \in Procs |-> NotStarted]
    /\ lastWriter = 0

\* load_json of invocation p: it reads the text the file holds now.
ConcLoad(p) ==
    /\ proc[p].pc = "start"
    /\ \E op \in {"set", "delete"}, key \in Keys, force \in BOOLEAN :
        \E value \in (IF op = "set" THEN Vals ELSE {<<>>}) :
            /\ op = "delete" => ~force
            /\ proc' = [proc EXCEPT ![p] =
                   [pc |-> "loaded", op |-> op, key |-> key, value |-> value,
                    force |-> force, seen |-> file, loadedAt |-> lastWriter,
                    res |-> Ok(<<>>), saved |-> FALSE]]
    /\ UNCHANGED <<file, before, last, lastWriter>>

\* The text invocation p works on: the one it read.
Snapshot_current(p) == file
Snapshot(p) == proc[p].seen

\* The rest of invocation p, on the text it read.
Run(p) ==
    IF proc[p].op = "set"
    THEN set(Snapshot(p), proc[p].key, proc[p].value, proc[p].force)
    ELSE delete(Snapshot(p), proc[p].key)

\* The key check, the change and save_json of invocation p: it fails
\* without writing, or overwrites the file with its own map.
ConcFinish(p) ==
    /\ proc[p].pc = "loaded"
    /\ LET o == Run(p) IN
        /\ Save(o)
        /\ lastWriter' = IF o.saved THEN p ELSE lastWriter
        /\ proc' = [proc EXCEPT ![p].pc = "done", ![p].res = o.res,
                                ![p].saved = o.saved]
    /\ UNCHANGED <<before, last>>

ConcNext == \E p \in Procs : ConcLoad(p) \/ ConcFinish(p)

SpecConc == ConcInit /\ [][ConcNext]_vars

\* ------------------------------------------------------------ properties

\* The store a file holds when it loads.
Loads(f) == load_json(f).ok
StoreOf(f) == load_json(f).map
EmptyObject == ObjectText(<<>>)

\* The text msg has the string k in it.
Carries(msg, k) ==
    \E i \in 1..(Len(msg) + 1) :
        i + Len(k) - 1 <= Len(msg) /\ SubSeq(msg, i, i + Len(k) - 1) = k

\* C1: whenever set(k, v, force) returns its confirmation message, which it
\* does from an empty store without force and on a store containing k with
\* force, a get(k) run right afterwards returns exactly v.
C1_SetThenGet ==
    last.op = "set" =>
        /\ (is_empty(load_or_default(before)) /\ ~last.force) => last.res.ok
        /\ (contains_key(load_or_default(before), last.key) /\ last.force) => last.res.ok
        /\ last.res.ok =>
            /\ Carries(last.res.out, last.key) /\ Carries(last.res.out, last.value)
            /\ get(file, last.key) = Ok(last.value)

\* an overwrite with force of a key bound to another value, the new value
\* holding a newline
C1_Witness ==
    /\ last.op = "set" /\ last.force /\ last.res.ok
    /\ Loads(before) /\ contains_key(StoreOf(before), last.key)
    /\ StoreOf(before)[last.key] # StringValue(last.value)
    /\ Carries(last.value, <<NL>>)

\* C2: set(k, v2, force=false) on a store that already contains k fails with
\* AlreadyExistsError naming k, performs no save, and leaves the file as it
\* was.
C2_OverwriteProtection ==
    (/\ last.op = "set" /\ ~last.force
     /\ Loads(before) /\ contains_key(StoreOf(before), last.key)) =>
        /\ ~last.res.ok
        /\ last.res.kind = "AlreadyExists"
        /\ Carries(last.res.out, last.key)
        /\ ~last.saved
        /\ file = before
        /\ StoreOf(file)[last.key] = StoreOf(before)[last.key]

\* a refused set of another value than the one stored
C2_Witness ==
    /\ last.op = "set" /\ ~last.force /\ ~last.res.ok
    /\ Loads(before) /\ contains_key(StoreOf(before), last.key)
    /\ StoreOf(before)[last.key] # StringValue(last.value)

\* C3: after a successful delete(k) the store no longer contains k: a get(k)
\* right afterwards fails with NotFoundError, and a set(k, v, force=false)
\* succeeds.
C3_DeleteRemoves ==
    (last.op = "delete" /\ last.res.ok) =>
        /\ Loads(file)
        /\ ~contains_key(StoreOf(file), last.key)
        /\ ~get(file, last.key).ok
        /\ get(file, last.key).kind = "NotFound"
        /\ Carries(get(file, last.key).out, last.key)
        /\ \A v \in Vals : set(file, last.key, v, FALSE).res.ok

\* a delete that succeeded on a store with another key left in it
C3_Witness ==
    /\ last.op = "delete" /\ last.res.ok /\ last.saved
    /\ contains_key(StoreOf(before), last.key)
    /\ ~is_empty(StoreOf(file))

C4_WitnessGetEmpty ==
    last.op = "get" /\ before = EmptyObject /\ last.res.kind = "NotFound"

\* What the last invocation's operation returns when it is run on the file
\* f, and the store the file holds after it.
ResultOn(f, inv) ==
    CASE inv.op = "get" -> get(f, inv.key)
      [] inv.op = "set" -> set(f, inv.key, inv.value, inv.force).res
      [] inv.op = "delete" -> delete(f, inv.key).res
      [] inv.op = "list" -> list(f)
      [] inv.op = "complete-keys" -> complete_keys(f)
      [] inv.op = "complete-commands" -> complete_commands(App)

StoreAfterOn(f, inv) ==
    CASE inv.op = "set" /\ set(f, inv.key, inv.value, inv.force).saved ->
            set(f, inv.key, inv.value, inv.force).map
      [] inv.op = "delete" /\ delete(f, inv.key).saved -> delete(f, inv.key).map
      [] OTHER -> load_or_default(f)

\* The same value or message, or an error of the same kind.
SameResult(r1, r2) ==
    /\ r1.ok = r2.ok
    /\ r1.ok => r1.out = r2.out
    /\ ~r1.ok => r1.kind = r2.kind

SameAsOnEmptyObject ==
    /\ SameResult(last.res, ResultOn(EmptyObject, last))
    /\ load_or_default(file) = StoreAfterOn(EmptyObject, last)

\* C5, as stated: each of get, set, delete, list and complete-keys, run while
\* the file is absent, gives the same result (value, message or error class)
\* and the same resulting mapping as on a file holding {}.
C5_AbsentAsEmpty_Original ==
    (last.op # "none" /\ before = Absent) => SameAsOnEmptyObject

\* C5, amended: that holds of get, set, delete and list, where get and delete
\* fail with an error of kind NotFound in both cases (the read's message when
\* the file is absent, the key's when it holds {}) and write nothing;
\* complete-keys fails on an absent file with the read's NotFound error and
\* leaves it absent, where on {} it returns the empty string.
C5_AbsentAsEmpty ==
    (last.op # "none" /\ before = Absent) =>
        /\ last.op \in {"get", "set", "delete", "list"} => SameAsOnEmptyObject
        /\ last.op \in {"get", "delete"} =>
            /\ last.res = Err("NotFound", OsNotFoundMsg)
            /\ ResultOn(EmptyObject, last).out # OsNotFoundMsg
            /\ Carries(ResultOn(EmptyObject, last).out, last.key)
            /\ file = Absent /\ ~last.saved
        /\ last.op = "complete-keys" =>
            /\ last.res = Err("NotFound", OsNotFoundMsg)
            /\ ResultOn(EmptyObject, last) = Ok(<<>>)
            /\ file = Absent /\ ~last.saved

\* a set run while the file is absent, which creates it
C5_Witness ==
    /\ before = Absent /\ last.op = "set" /\ last.res.ok
    /\ file # Absent /\ Loads(file)

\* complete-keys run while the file is absent
C5_WitnessCompleteKeys ==
    before = Absent /\ last.op = "complete-keys" /\ ~last.res.ok

\* The file's text is not JSON.
IsInvalidJson(f) ==
    \/ f.form = "invalid"
    \/ f.form = "object" /\ \E i \in 1..Len(f.members) : ~MemberOk(f.members[i])

\* C6: when the file holds invalid JSON, set(k, v, force) succeeds for either
\* value of force and leaves a store of exactly the one entry k -> v; get(k)
\* and delete(k) on the same file fail with a parse error.
C6_CorruptFile ==
    IsInvalidJson(before) =>
        /\ last.op = "set" =>
            /\ last.res.ok /\ last.saved
            /\ Loads(file)
            /\ DOMAIN StoreOf(file) = {last.key}
            /\ StoreOf(file)[last.key] = StringValue(last.value)
            /\ get(file, last.key) = Ok(last.value)
        /\ last.op \in {"get", "delete"} =>
            /\ ~last.res.ok
            /\ last.res.kind = "InvalidData"
            /\ last.res.out = SyntaxMsg
            /\ file = before /\ ~last.saved

\* a set without force that replaced text that is not JSON
C6_Witness ==
    /\ IsInvalidJson(before) /\ last.op = "set" /\ ~last.force
    /\ last.res.ok /\ Loads(file)

\* a get refused on text that is not JSON
C6_WitnessGet ==
    IsInvalidJson(before) /\ last.op = "get" /\ ~last.res.ok

\* C7: list returns exactly "No keys found.", never an error, when the file
\* is absent, holds the empty object, or fails to load (invalid JSON, or a
\* top-level value that is not an object).
C7_EmptyList ==
    (/\ last.op = "list"
     /\ \/ before.form \in {"absent", "invalid", "scalar"}
        \/ before = EmptyObject) =>
        /\ last.res = Ok(<<"No keys found.">>)
        /\ file = before

\* list on a file that does not load
C7_Witness ==
    last.op = "list" /\ before.form \in {"invalid", "scalar"} /\ last.res.ok

\* list on the empty object and on no file
C7_WitnessEmptyObject == last.op = "list" /\ before = EmptyObject /\ last.res.ok
C7_WitnessAbsent == last.op = "list" /\ before = Absent /\ last.res.ok

\* The pieces of a text between its newlines.
RECURSIVE Pieces(_)
Pieces(t) ==
    IF \A i \in 1..Len(t) : t[i] # NL THEN <<t>>
    ELSE LET i == CHOOSE i \in 1..Len(t) :
                      t[i] = NL /\ \A j \in 1..(i - 1) : t[j] # NL
         IN <<SubSeq(t, 1, i - 1)>> \o Pieces(SubSeq(t, i + 1, Len(t)))

\* The lines of a text; the empty text has none.
Lines(t) == IF t = <<>> THEN <<>> ELSE Pieces(t)

AllStrings(m) == \A k \in DOMAIN m : m[k].type = "String"
NoNewline(m) ==
    \A k \in DOMAIN m : ~Carries(k, <<NL>>) /\ ~Carries(m[k].s, <<NL>>)

\* The entries of m written with sep between key and value, in the order o.
EntryTexts(m, o, sep) == [i \in 1..Len(o) |-> o[i] \o sep \o m[o[i]].s]

\* The text out is the entries of m, one per entry, joined by newlines in
\* some order; where no key or value holds a newline, the lines of out are
\* then the entries, one line each and no other line.
IsListing(out, m, sep) ==
    /\ \E o \in Orders(DOMAIN m) : out = join(EntryTexts(m, o, sep))
    /\ NoNewline(m) =>
        /\ Len(Lines(out)) = Cardinality(DOMAIN m)
        /\ {Lines(out)[i] : i \in 1..Len(Lines(out))}
            = {k \o sep \o m[k].s : k \in DOMAIN m}

\* C8: for a store with entries whose values are all strings, list returns
\* one line "key -> value" for every entry and no other line, joined by
\* newlines, in any order.
C8_ListEntries ==
    (/\ last.op = "list"
     /\ Loads(before) /\ ~is_empty(StoreOf(before)) /\ AllStrings(StoreOf(before))) =>
        /\ last.res.ok
        /\ IsListing(last.res.out, StoreOf(before), <<" -> ">>)
        /\ file = before

\* list of a store of two entries, a -> 1 among its lines
C8_Witness ==
    /\ last.op = "list" /\ last.res.ok
    /\ Loads(before) /\ Cardinality(DOMAIN StoreOf(before)) = 2
    /\ NoNewline(StoreOf(before))
    /\ \E i \in 1..2 : Lines(last.res.out)[i] = <<"a", " -> ", "1">>

\* list of a store of two entries one of whose values holds a newline
C8_WitnessNewline ==
    /\ last.op = "list" /\ last.res.ok
    /\ Loads(before) /\ Cardinality(DOMAIN StoreOf(before)) = 2
    /\ ~NoNewline(StoreOf(before))

\* C9: when the file maps k to a JSON value that is not a string, get(k)
\* fails with a data/type error and returns neither the value nor a string
\* made of it.
C9_NonStringValue ==
    (/\ last.op = "get"
     /\ Loads(before) /\ contains_key(StoreOf(before), last.key)
     /\ StoreOf(before)[last.key].type # "String") =>
        /\ ~last.res.ok
        /\ last.res.kind = "InvalidData"
        /\ last.res.out # StoreOf(before)[last.key].s
        /\ file = before

\* get of a key bound to a number, in a file that binds another key to a
\* string
C9_Witness ==
    /\ last.op = "get" /\ ~last.res.ok
    /\ Loads(before) /\ contains_key(StoreOf(before), last.key)
    /\ StoreOf(before)[last.key] = NumberValue
    /\ \E k \in DOMAIN StoreOf(before) : StoreOf(before)[k].type = "String"

\* C10: complete-keys propagates every load failure (absent file, invalid
\* JSON, top-level value that is not an object) as an error, returns on a
\* store of string values one line "key:value" per entry joined by newlines
\* (the empty string for the empty object), and does not write the file.
C10_CompleteKeys ==
    last.op = "complete-keys" =>
        /\ before.form = "absent" => last.res = Err("NotFound", OsNotFoundMsg)
        /\ IsInvalidJson(before) => last.res = Err("InvalidData", SyntaxMsg)
        /\ before.form = "scalar" =>
            last.res = Err("InvalidData", <<"Data in file was not an object.">>)
        /\ (Loads(before) /\ AllStrings(StoreOf(before))) =>
            /\ last.res.ok
            /\ IsListing(last.res.out, StoreOf(before), <<":">>)
            /\ is_empty(StoreOf(before)) => last.res.out = <<>>
        /\ file = before /\ ~last.saved

\* complete-keys of a store of two entries
C10_Witness ==
    /\ last.op = "complete-keys" /\ last.res.ok
    /\ Cardinality(DOMAIN StoreOf(before)) = 2
    /\ Carries(last.res.out, <<"b", ":">>)

\* complete-keys refused on a file that does not load
C10_WitnessLoadFailure ==
    last.op = "complete-keys" /\ ~Loads(before) /\ ~last.res.ok

\* C11: complete-commands returns one line "name:description" for every
\* registered subcommand that has a description and whose name does not begin
\* with "complete" (delete, get, list, set) and for no other, whatever the
\* store holds and without writing the store file.
C11_CompleteCommands ==
    last.op = "complete-commands" =>
        /\ last.res.ok
        /\ Len(Lines(last.res.out)) = 4
        /\ {Lines(last.res.out)[i] : i \in 1..Len(Lines(last.res.out))}
            = { <<"delete", ":", "Deletes key:value pairs.">>,
                <<"get", ":", "Gets the value for a given key.">>,
                <<"list", ":", "Lists all key:value pairs.">>,
                <<"set", ":", "Sets a value for a key.">> }
        /\ \A i \in 1..Len(Lines(last.res.out)) :
               ~starts_with(Lines(last.res.out)[i], <<"complete">>)
        /\ file = before /\ ~last.saved

\* complete-commands run on a file that does not load, and on a store with
\* entries
C11_Witness ==
    last.op = "complete-commands" /\ last.res.ok /\ ~Loads(before)

C11_WitnessStore ==
    last.op = "complete-commands" /\ last.res.ok /\ ~is_empty(StoreOf(before))

\* What an invocation's operation does on the text t.
OutcomeOn(t, inv) ==
    IF inv.op = "set" THEN set(t, inv.key, inv.value, inv.force)
    ELSE delete(t, inv.key)

AllDone == \A p \in Procs : proc[p].pc = "done"

\* Two sets of distinct keys, absent from what each read, that both read the
\* file before either wrote it.
BothLoadedFirst ==
    /\ \A p \in Procs :
        /\ proc[p].op = "set"
        /\ proc[p].loadedAt = 0
        /\ ~contains_key(load_or_default(proc[p].seen), proc[1].key)
        /\ ~contains_key(load_or_default(proc[p].seen), proc[2].key)
    /\ proc[1].key # proc[2].key

\* C12: with two invocations run at once, load and save separate steps and
\* no lock, the file after both have finished is the mapping written by
\* whichever saved last, with no merge; two sets of distinct absent keys that
\* both load before either saves both report success and the final store
\* holds only one of the two keys.
C12_LastWriterWins ==
    AllDone =>
        /\ lastWriter = 0 => file = before
        /\ lastWriter # 0 =>
            /\ proc[lastWriter].saved
            /\ file = Serialize(OutcomeOn(proc[lastWriter].seen, proc[lastWriter]).map)
        /\ BothLoadedFirst =>
            /\ \A p \in Procs : proc[p].res.ok /\ proc[p].saved
            /\ Carries(proc[1].res.out, proc[1].key)
            /\ Carries(proc[2].res.out, proc[2].key)
            /\ Loads(file)
            /\ contains_key(StoreOf(file), proc[lastWriter].key)
            /\ \A p \in Procs :
                p # lastWriter => ~contains_key(StoreOf(file), proc[p].key)

\* both sets confirmed, and the key of the first to save is lost
C12_Witness ==
    /\ AllDone /\ BothLoadedFirst
    /\ \A p \in Procs : proc[p].res.ok
    /\ Cardinality(DOMAIN StoreOf(file) \cap {proc[1].key, proc[2].key}) = 1

\* a delete that saved last brought back nothing of what the other had set
C12_WitnessDelete ==
    /\ AllDone /\ lastWriter # 0 /\ proc[lastWriter].op = "delete"
    /\ \E p \in Procs :
        /\ p # lastWriter /\ proc[p].op = "set" /\ proc[p].saved
        /\ proc[lastWriter].loadedAt = 0
        /\ ~contains_key(StoreOf(file), proc[p].key)

\* C13: load failures are classified and propagated: an absent file gives an
\* IO error, invalid JSON a parse error, valid JSON whose top-level value is
\* not an object the error "Data in file was not an object."; get, delete and
\* complete-keys return that error unchanged, not NotFoundError or a result.
C13_LoadFailures ==
    last.op \in {"get", "delete", "complete-keys"} =>
        /\ before.form = "absent" =>
            last.res = Err("NotFound", <<"No such file or directory (os error 2)">>)
        /\ IsInvalidJson(before) =>
            last.res = Err("InvalidData", <<"expected value at line 1 column 1">>)
        /\ before.form = "scalar" =>
            last.res = Err("InvalidData", <<"Data in file was not an object.">>)
        /\ before.form \in {"absent", "invalid", "scalar"} =>
            /\ ~last.res.ok
            /\ ~Carries(last.res.out, <<" not found.">>)
            /\ file = before /\ ~last.saved

\* delete refused on JSON that is not an object
C13_Witness ==
    last.op = "delete" /\ before.form = "scalar" /\ ~last.res.ok

\* get refused on no file and on text that is not JSON
C13_WitnessAbsent == last.op = "get" /\ before.form = "absent" /\ ~last.res.ok
C13_WitnessInvalid == last.op = "get" /\ before.form = "invalid" /\ ~last.res.ok

\* C14: get, list, complete-keys and complete-commands never create, write or
\* alter the store file, whether they succeed or fail.
C14_ReadOnly ==
    last.op \in {"get", "list", "complete-keys", "complete-commands"} =>
        /\ file = before
        /\ ~last.saved

\* a get that returned a value from a store of two entries
C14_Witness ==
    /\ last.op = "get" /\ last.res.ok
    /\ Cardinality(DOMAIN StoreOf(before)) = 2

\* a list that found no file
C14_WitnessAbsent == last.op = "list" /\ before = Absent /\ file = Absent

\* C15: when the file loads, a successful set(k, v, force) leaves every entry
\* with another key present with its value unchanged, and a successful
\* delete(k) removes k and leaves every other entry present and unchanged.
C15_OwnKeyOnly ==
    (last.op \in {"set", "delete"} /\ last.res.ok /\ Loads(before)) =>
        /\ Loads(file)
        /\ \A k \in DOMAIN StoreOf(before) :
            k # last.key =>
                /\ contains_key(StoreOf(file), k)
                /\ StoreOf(file)[k] = StoreOf(before)[k]
        /\ DOMAIN StoreOf(file) \subseteq DOMAIN StoreOf(before) \cup {last.key}
        /\ last.op = "set" => StoreOf(file)[last.key] = StringValue(last.value)
        /\ last.op = "delete" => ~contains_key(StoreOf(file), last.key)

\* a set with force that replaced one entry of two
C15_Witness ==
    /\ last.op = "set" /\ last.res.ok /\ last.force
    /\ Loads(before) /\ Cardinality(DOMAIN StoreOf(before)) = 2
    /\ StoreOf(before)[last.key] # StringValue(last.value)

\* a delete that removed one entry of two
C15_WitnessDelete ==
    /\ last.op = "delete" /\ last.res.ok
    /\ Cardinality(DOMAIN StoreOf(before)) = 2
    /\ Cardinality(DOMAIN StoreOf(file)) = 1

\* C16: starting from an absent file or a JSON object with string values,
\* after any sequence of completed invocations of get, set, delete, list and
\* complete-keys the file is absent or a JSON object with string values.
C16_FileFormat ==
    /\ IsStoreFile(file)
    /\ file.form = "object" =>
        /\ Loads(file)
        /\ \A k \in DOMAIN StoreOf(file) : StoreOf(file)[k].type = "String"

\* a file of two entries, one with a newline in its value, written by set
C16_Witness ==
    /\ last.op = "set" /\ last.saved
    /\ Cardinality(DOMAIN StoreOf(file)) = 2
    /\ Carries(last.value, <<NL>>)

\* a file emptied by delete
C16_WitnessDelete ==
    last.op = "delete" /\ last.saved /\ file = EmptyObject

\* C17: a delete that fails with NotFoundError or with a load error, and a
\* get or complete-keys that fails with any error, performs no save and
\* leaves the file (a corrupt or absent one too) as it was; save is reached
\* only after the load and the key check have passed.
C17_NoWriteOnError ==
    /\ (last.op \in {"delete", "get", "complete-keys"} /\ ~last.res.ok) =>
        /\ ~last.saved
        /\ file = before
    /\ (last.op = "delete" /\ last.saved) =>
        /\ before.form = "object"
        /\ \E i \in 1..Len(before.members) :
               Unescape(before.members[i].key).s = last.key
        /\ last.res.ok

\* a delete of a key that a file with repeated or other members does not hold
C17_Witness ==
    /\ last.op = "delete" /\ ~last.res.ok /\ last.res.kind = "NotFound"
    /\ Loads(before) /\ ~is_empty(StoreOf(before))

\* a delete refused on text that is not JSON
C17_WitnessCorrupt ==
    last.op = "delete" /\ ~last.res.ok /\ before = InvalidText /\ file = InvalidText

\* The text is a JSON object whose last member for the key k has a value
\* written as lit: a string literal, or a number.
Binds(f, k, lit) ==
    /\ f.form = "object"
    /\ \E i \in 1..Len(f.members) :
        /\ Unescape(f.members[i].key).s = k
        /\ f.members[i].val.lit = lit
        /\ \A j \in (i + 1)..Len(f.members) : Unescape(f.members[j].key).s # k

HoldsNonString(f, k) == Binds(f, k, "number")
HoldsString(f, k) == Binds(f, k, "string")
HoldsNothing(f, k) ==
    f.form = "object" /\ \A i \in 1..Len(f.members) : Unescape(f.members[i].key).s # k

\* C18: load accepts any JSON object whatever its values; on a file where a
\* key k holds a non-string value, get(j) of a key j that holds a string
\* returns the string, delete(k) succeeds, set(k, v, force=false) fails with
\* AlreadyExistsError, and set(m, v) of an absent key m succeeds and writes
\* k's non-string value back unchanged.
C18_LazyTypeCheck ==
    \A k \in Keys :
        HoldsNonString(before, k) =>
            /\ (last.op = "get" /\ HoldsString(before, last.key)) =>
                /\ last.res.ok
                /\ \E i \in 1..Len(before.members) :
                       before.members[i] = Member(last.key, StringLit(last.res.out))
            /\ (last.op = "delete" /\ last.key = k) =>
                /\ last.res.ok /\ last.saved
                /\ Loads(file) /\ ~contains_key(StoreOf(file), k)
            /\ (last.op = "set" /\ last.key = k /\ ~last.force) =>
                /\ ~last.res.ok /\ last.res.kind = "AlreadyExists"
                /\ file = before
            /\ (last.op = "set" /\ HoldsNothing(before, last.key)) =>
                /\ last.res.ok /\ last.saved
                /\ HoldsNonString(file, k)
                /\ \E i \in 1..Len(file.members) :
                       file.members[i] = Member(k, NumberLit)
                /\ HoldsString(file, last.key)
                /\ get(file, last.key) = Ok(last.value)

\* a set of an absent key on a file that binds another key to a number
C18_Witness ==
    /\ last.op = "set" /\ last.res.ok
    /\ \E k \in Keys : k # last.key /\ HoldsNonString(before, k) /\ HoldsNonString(file, k)
    /\ HoldsNothing(before, last.key)

\* a get that returned the string of one key from a file that binds another
\* key to a number
C18_WitnessGet ==
    /\ last.op = "get" /\ last.res.ok
    /\ \E k \in Keys : HoldsNonString(before, k)

\* a delete of the key bound to the number
C18_WitnessDelete ==
    last.op = "delete" /\ last.res.ok /\ HoldsNonString(before, last.key)

\* C19: on a file that is a JSON object in which at least one value is not a
\* string, list and complete-keys fail with a data/type error; they return
\* neither "No keys found." nor a partial listing.
C19_ListTypeError ==
    (/\ last.op \in {"list", "complete-keys"}
     /\ \E k \in Keys : HoldsNonString(before, k)) =>
        /\ ~last.res.ok
        /\ last.res.kind = "InvalidData"
        /\ last.res.out = <<"invalid type: integer 42, expected a string">>
        /\ file = before

\* list refused on a file that binds one key to a number and one to a string
C19_Witness ==
    /\ last.op = "list" /\ ~last.res.ok
    /\ \E k \in Keys : HoldsNonString(before, k)
    /\ \E k \in Keys : HoldsString(before, k)

C19_WitnessCompleteKeys ==
    /\ last.op = "complete-keys" /\ ~last.res.ok
    /\ \E k \in Keys : HoldsNonString(before, k)

\* The step is an invocation of set with force, or of delete.
ForcedOrDelete == last'.op = "delete" \/ (last'.op = "set" /\ last'.force)

\* C20: over invocations that are neither a set with force nor a delete,
\* once get(k) returns v every later get(k) returns the same v: a key's value
\* changes only through set with force or through delete.
C20_StableBindings ==
    [][\A k \in Keys :
          (get(file, k).ok /\ ~ForcedOrDelete) => get(file', k) = get(file, k)]_vars

\* a set without force, refused on a bound key, that left the key's value
\* another than the one it was given
C20_Witness ==
    /\ last.op = "set" /\ ~last.force /\ ~last.res.ok
    /\ get(before, last.key).ok
    /\ get(file, last.key) = get(before, last.key)
    /\ get(file, last.key) # Ok(last.value)

\* a set without force of another key, next to a bound key
C20_WitnessOtherKey ==
    /\ last.op = "set" /\ ~last.force /\ last.res.ok
    /\ \E k \in Keys : k # last.key /\ get(before, k).ok /\ get(file, k) = get(before, k)

====
